---- MODULE Spec2Model ----
(***************************************************************************)
(* alarm-modem: the modem handshake (main.rs, send_commands) followed by   *)
(* the tone listening loop (audio.rs, listen).  Times are in milliseconds. *)
(* The handshake keeps the time since the current command was written      *)
(* (start_time.elapsed()); the listening loop keeps the clock since listen *)
(* started (now), so that prev_time_detected starts at 0.                  *)
(***************************************************************************)
EXTENDS Integers, Sequences, FiniteSets

VARIABLES
    pc,                  \* position of main: "send", "poll", "returned", "listen", "hs_failed", "listen_failed"
    idx,                 \* index in commands of the command being handled (for cmd in commands)
    elapsed,             \* start_time.elapsed() of the current command
    buffer,              \* response buffer the last finished command was left with
    written,             \* what write_all has put on the link, in order
    rx,                  \* bytes the port holds unread (bytes_to_read of them)
    pending,             \* bytes the modem has still to send
    hsErr,               \* the error send_commands returned, "none" if none
    firstBad,            \* first command that ended without its expected reply, 0 if none
    polled,              \* number of commands whose polling loop has ended
    now,                 \* clock of the listening loop, 0 when listen starts
    prev_tone_detected,  \* listen: prev_tone_detected
    prev_time_detected,  \* listen: prev_time_detected
    ev,                  \* what the last iteration of the listening loop did
    lastTone,            \* classification of the last processed frame, "none" before the first
    lastInvoke,          \* time of the last callback invocation, -1 if none
    lastEdge,            \* the last rising edge: when it was processed, when done, whether it fired
    triggers,            \* number of callback invocations
    cbFailed,            \* some callback invocation failed to deliver its notification
    arg,                 \* the argument of a function applied on its own
    result               \* what the function returned, or left in its argument

vars == <<pc, idx, elapsed, buffer, written, rx, pending, hsErr, firstBad, polled,
          now, prev_tone_detected, prev_time_detected, ev, lastTone, lastInvoke,
          lastEdge, triggers, cbFailed, arg, result>>

pureVars == <<arg, result>>

hsVars == <<idx, elapsed, buffer, written, rx, pending, hsErr, firstBad, polled>>
listenVars == <<now, prev_tone_detected, prev_time_detected, ev, lastTone, lastInvoke,
                lastEdge, triggers, cbFailed>>

(* ------------------------------ bounds -------------------------------- *)
MaxTime == 13000      \* the listening loop is followed for this long
MaxLink == 12         \* bytes the link holds in flight or unread
MaxLate == 1          \* commands a reply may be late by and still be in flight
ChunkLen == 4         \* the modem delivers a reply whole or this many bytes at a time
SpinCost == 1000      \* time one poll iteration takes when the read returns at once
ReadDelay == 2500     \* time a read of the listening loop may wait for its bytes
CallbackDelay == 2500 \* time the trigger callback may take
MaxRaw == 3           \* bytes of a raw response, the modem's replies apart
MaxFrame == 3         \* samples of a frame handed to high_pass_filter
ShortFrame == 200     \* bins of a transform output shorter than FFT_SAMPLE_SIZE

(* --------------------------- program constants ------------------------ *)
DURATION_IO_TIMEOUT == 2000
DURATION_CMD_READ_TIMEOUT == 250
DURATION_CMD_READ_EMPTY == 100
DETECTION_INTERVAL == 5000
READ_TIMEOUT == 250

CR == "\r"
LF == "\n"

\* main.rs: the list main hands to send_commands
commands == <<"ATE0", "ATZ", "AT", "AT+FCLASS=8", "AT+VLS=1", "AT+VGR=3",
              "AT+VSM=1,8000", "AT+VRX">>

\* format!("{}\r", cmd)
CommandLineBare(cmd) == <<cmd>>
CommandLine(cmd) == <<cmd, CR>>

\* the reply the handshake is specified to expect of each command
Expected(cmd) == IF cmd = "AT+VRX" THEN <<"C", "O", "N", "N", "E", "C", "T">>
                 ELSE <<"O", "K">>

\* char::is_control, on the bytes a modem reply is made of
IsControl(c) == c \in {CR, LF}

RECURSIVE FilterControl(_)
FilterControl(s) ==
    IF s = <<>> THEN <<>>
    ELSE IF IsControl(Head(s)) THEN FilterControl(Tail(s))
    ELSE <<Head(s)>> \o FilterControl(Tail(s))

\* the bytes of a tagged byte sequence
Bytes(s) == [k \in 1..Len(s) |-> s[k].b]

\* String::from_utf8_lossy(&buffer).chars().filter(|c| !c.is_control())
Response(buf) == FilterControl(Bytes(buf))

\* replies a voice modem gives (verbose result codes), and no reply at all
ReplyOK == <<CR, LF, "O", "K", CR, LF>>
ReplyERROR == <<CR, LF, "E", "R", "R", "O", "R", CR, LF>>
ReplyCONNECT == <<CR, LF, "C", "O", "N", "N", "E", "C", "T", CR, LF>>
ModemReplies(cmd) == IF cmd = "AT+VRX" THEN {<<>>, ReplyCONNECT, ReplyERROR}
                     ELSE {<<>>, ReplyOK, ReplyERROR}

\* a reply's bytes, each tagged with the command it answers
Tag(reply, k) == [j \in 1..Len(reply) |-> [b |-> reply[j], of |-> k]]

NoEdge == [at |-> -1, done |-> -1, fired |-> FALSE, prevDone |-> -1, prevFired |-> FALSE]
NoEvent == [read |-> "none", tone |-> FALSE, fired |-> FALSE, at |-> 0, cb |-> "none"]

\* the program before its first step
Fresh ==
    /\ idx = 1
    /\ elapsed = 0
    /\ buffer = <<>>
    /\ written = <<>>
    /\ rx = <<>>
    /\ pending = <<>>
    /\ hsErr = "none"
    /\ firstBad = 0
    /\ polled = 0
    /\ now = 0
    /\ prev_tone_detected = FALSE
    /\ prev_time_detected = 0
    /\ ev = NoEvent
    /\ lastTone = "none"
    /\ lastInvoke = -1
    /\ lastEdge = NoEdge
    /\ triggers = 0
    /\ cbFailed = FALSE

Init ==
    /\ pc = "send"
    /\ Fresh
    /\ arg = <<>>
    /\ result = <<>>

(* ------------------------- send_commands (main.rs) -------------------- *)

\* send_commands returns Err(kind) through `?` or `return Err`; main returns it in
\* turn and the port is closed
ReturnErr(kind) ==
    /\ pc' = "hs_failed"
    /\ hsErr' = kind
    /\ elapsed' = 0
    /\ rx' = <<>>
    /\ pending' = <<>>
    /\ UNCHANGED <<idx, buffer, written, firstBad, polled>>

\* the polling loop of the current command has ended with buf in the buffer:
\* print the response, go on with the next command, or return Ok(()) after the
\* last one
EndCommand(buf, unread) ==
    /\ buffer' = buf
    /\ polled' = polled + 1
    /\ firstBad' = IF firstBad = 0 /\ Response(buf) # Expected(commands[idx])
                   THEN idx ELSE firstBad
    /\ idx' = idx + 1
    /\ elapsed' = 0
    /\ IF idx < Len(commands)
       THEN /\ pc' = "send"
            /\ rx' = unread
            /\ UNCHANGED pending
       ELSE /\ pc' = "returned"
            /\ rx' = unread
            /\ UNCHANGED pending
    /\ UNCHANGED <<written, hsErr>>

\* the bytes the modem still holds back when command k is written: those of replies
\* at most MaxLate commands old (older ones have arrived by then)
IsLate(x, k) == x.of + MaxLate < k
Arrived(k) == SelectSeq(pending, LAMBDA x : IsLate(x, k))
HeldBack(k) == SelectSeq(pending, LAMBDA x : ~IsLate(x, k))

\* port.write_all(format!("{}\r", cmd).as_bytes())?; the modem answers with a reply
\* of its choice, or not at all.  let mut buffer = Vec::new(); start_time = now
WriteOk ==
    /\ written' = Append(written, CommandLine(commands[idx]))
    /\ \E reply \in ModemReplies(commands[idx]) :
          /\ Len(rx) + Len(pending) + Len(reply) <= MaxLink
          /\ pending' = HeldBack(idx) \o Tag(reply, idx)
    /\ rx' = rx \o Arrived(idx)
    /\ buffer' = <<>>
    /\ elapsed' = 0
    /\ pc' = "poll"
    /\ UNCHANGED <<idx, hsErr, firstBad, polled>>

SendCommand ==
    /\ pc = "send"
    /\ \/ WriteOk
       \/ ReturnErr("write_timed_out")
       \/ ReturnErr("write_error")
    /\ UNCHANGED <<listenVars, pureVars>>

\* if start_time.elapsed() > DURATION_IO_TIMEOUT { break; }
TimedOut == elapsed > DURATION_IO_TIMEOUT

PollTimeout ==
    /\ pc = "poll"
    /\ TimedOut
    /\ EndCommand(<<>>, rx)
    /\ UNCHANGED <<listenVars, pureVars>>

\* port.bytes_to_read()? fails
PollBytesToReadErr ==
    /\ pc = "poll"
    /\ ~TimedOut
    /\ ReturnErr("bytes_to_read_error")
    /\ UNCHANGED <<listenVars, pureVars>>

PollIdleRestarts ==
    /\ pc = "poll"
    /\ ~TimedOut
    /\ Len(rx) = 0
    /\ elapsed' = DURATION_CMD_READ_EMPTY
    /\ UNCHANGED <<pc, idx, buffer, written, rx, pending, hsErr, firstBad, polled>>
    /\ UNCHANGED <<listenVars, pureVars>>

\* bytes_to_read == 0: sleep(DURATION_CMD_READ_EMPTY)
PollIdle ==
    /\ pc = "poll"
    /\ ~TimedOut
    /\ Len(rx) = 0
    /\ elapsed' = elapsed + DURATION_CMD_READ_EMPTY
    /\ UNCHANGED <<pc, idx, buffer, written, rx, pending, hsErr, firstBad, polled>>
    /\ UNCHANGED <<listenVars, pureVars>>

\* Ok(n) if n > 0: buffer.extend_from_slice(&temp_buffer[..n]); break.  The read
\* fills temp_buffer, which has room for the bytes_to_read bytes counted before it
ReadData(n) == EndCommand(SubSeq(rx, 1, n), SubSeq(rx, n + 1, Len(rx)))

\* Ok(_) => {}: the loop goes round again
ReadZeroBreaks == EndCommand(<<>>, rx)
ReadZero ==
    /\ elapsed' = elapsed + SpinCost
    /\ UNCHANGED <<pc, idx, buffer, written, rx, pending, hsErr, firstBad, polled>>

\* Err(e) if e.kind() == TimedOut => sleep(DURATION_CMD_READ_TIMEOUT), after the read
\* has blocked for the port's timeout
ReadTimedOut ==
    /\ elapsed' = elapsed + DURATION_IO_TIMEOUT + DURATION_CMD_READ_TIMEOUT
    /\ UNCHANGED <<pc, idx, buffer, written, rx, pending, hsErr, firstBad, polled>>

\* bytes_to_read > 0: port.read(&mut temp_buffer) and its four arms
PollRead ==
    /\ pc = "poll"
    /\ ~TimedOut
    /\ Len(rx) > 0
    /\ \/ ReadData(Len(rx))
       \/ ReadZero
       \/ ReadTimedOut
       \/ ReturnErr("read_error")
    /\ UNCHANGED <<listenVars, pureVars>>

\* the modem sends the next bytes of its replies (between the end of a polling loop
\* and the next write nothing reads the port, so arrivals are taken after the write)
ModemDeliver ==
    /\ pc = "poll"
    /\ pending # <<>>
    /\ \E n \in {Len(pending), ChunkLen} :
          /\ n <= Len(pending)
          /\ rx' = rx \o SubSeq(pending, 1, n)
          /\ pending' = SubSeq(pending, n + 1, Len(pending))
    /\ UNCHANGED <<pc, idx, elapsed, buffer, written, hsErr, firstBad, polled>>
    /\ UNCHANGED <<listenVars, pureVars>>

(* ------------------------------ listen (audio.rs) --------------------- *)

\* send_commands returned Ok(()): main goes on to listen, which starts with
\* prev_tone_detected = false and prev_time_detected = Instant::now().  The locals of
\* send_commands are gone, and from here the link carries the audio stream, which
\* the outcomes of the reads stand for
StartListen ==
    /\ pc = "returned"
    /\ pc' = "listen"
    /\ prev_tone_detected' = FALSE
    /\ prev_time_detected' = now
    /\ buffer' = <<>>
    /\ rx' = <<>>
    /\ pending' = <<>>
    /\ UNCHANGED <<idx, elapsed, written, hsErr, firstBad, polled, now, ev, lastTone,
                   lastInvoke, lastEdge, triggers, cbFailed, pureVars>>

ReadDelays == {0, ReadDelay}
CallbackDurations == {0, CallbackDelay}
CallbackResults == {"delivered", "failed"}

\* if tone_detected && !prev_tone_detected
RisingEdge(tone_detected) == tone_detected /\ ~prev_tone_detected

\* if prev_time_detected.elapsed() >= DETECTION_INTERVAL, evaluated at time t
IntervalIgnored(t) == TRUE
IntervalStrict(t) == t - prev_time_detected > DETECTION_INTERVAL
IntervalElapsed(t) == t - prev_time_detected >= DETECTION_INTERVAL

\* callback(); the callback returns nothing, so whatever became of its notification
\* the loop goes on
AfterCallbackPropagates(cb) == IF cb = "failed" THEN "listen_failed" ELSE "listen"
AfterCallback(cb) == "listen"

\* prev_time_detected after the frame: Instant::now() once the callback has returned
NextPrevTimeOnEdge(tone_detected, fire, done) ==
    IF RisingEdge(tone_detected) THEN done ELSE prev_time_detected
NextPrevTime(tone_detected, fire, done) ==
    IF fire THEN done ELSE prev_time_detected

\* prev_tone_detected after the frame
NextPrevToneSticky(tone_detected) ==
    IF tone_detected THEN TRUE ELSE prev_tone_detected
NextPrevToneOnlyReset(tone_detected) ==
    IF ~tone_detected THEN FALSE ELSE prev_tone_detected
NextPrevTone(tone_detected) ==
    IF RisingEdge(tone_detected) THEN TRUE
    ELSE IF ~tone_detected THEN FALSE
    ELSE prev_tone_detected

\* the record of an iteration
Event(read, t) == [read |-> read, tone |-> FALSE, fired |-> FALSE, at |-> t, cb |-> "none"]

\* Ok(n) if n > 0: the frame read at time t is classified tone_detected; the
\* callback, when invoked, takes dcb and ends with cb
ProcessFrame(t, tone_detected, cb, dcb) ==
    LET fire == RisingEdge(tone_detected) /\ IntervalElapsed(t)
        done == IF fire THEN t + dcb ELSE t
        edge == tone_detected /\ lastTone # "true"
    IN  /\ done <= MaxTime
        /\ now' = done
        /\ prev_time_detected' = NextPrevTime(tone_detected, fire, done)
        /\ prev_tone_detected' = NextPrevTone(tone_detected)
        /\ triggers' = IF fire THEN triggers + 1 ELSE triggers
        /\ cbFailed' = (cbFailed \/ (fire /\ cb = "failed"))
        /\ lastInvoke' = IF fire THEN t ELSE lastInvoke
        /\ lastTone' = IF tone_detected THEN "true" ELSE "false"
        /\ lastEdge' = IF edge THEN [at |-> t, done |-> done, fired |-> fire,
                                      prevDone |-> lastEdge.done,
                                      prevFired |-> lastEdge.fired]
                       ELSE lastEdge
        /\ ev' = [Event("frame", t) EXCEPT !.tone = tone_detected, !.fired = fire,
                                           !.cb = IF fire THEN cb ELSE "none"]
        /\ pc' = IF fire THEN AfterCallback(cb) ELSE "listen"

ListenFrame ==
    /\ pc = "listen"
    /\ \E d \in ReadDelays, tone_detected \in BOOLEAN,
          cb \in CallbackResults, dcb \in CallbackDurations :
          ProcessFrame(now + d, tone_detected, cb, dcb)
    /\ UNCHANGED <<hsVars, pureVars>>

ListenZeroForgets ==
    /\ pc = "listen"
    /\ \E d \in ReadDelays :
          /\ now + d <= MaxTime
          /\ now' = now + d
          /\ ev' = Event("zero", now + d)
    /\ prev_tone_detected' = FALSE
    /\ UNCHANGED <<pc, prev_time_detected, lastTone, lastInvoke, lastEdge, triggers,
                   cbFailed>>
    /\ UNCHANGED <<hsVars, pureVars>>

\* Ok(_) => {}
ListenZero ==
    /\ pc = "listen"
    /\ \E d \in ReadDelays :
          /\ now + d <= MaxTime
          /\ now' = now + d
          /\ ev' = Event("zero", now + d)
    /\ UNCHANGED <<pc, prev_tone_detected, prev_time_detected, lastTone, lastInvoke,
                   lastEdge, triggers, cbFailed>>
    /\ UNCHANGED <<hsVars, pureVars>>

ListenTimeoutFatal ==
    /\ pc = "listen"
    /\ pc' = "listen_failed"
    /\ ev' = Event("timeout", now + DURATION_IO_TIMEOUT)
    /\ UNCHANGED <<now, prev_tone_detected, prev_time_detected, lastTone, lastInvoke,
                   lastEdge, triggers, cbFailed>>
    /\ UNCHANGED <<hsVars, pureVars>>

\* Err(e) if e.kind() == TimedOut => sleep(READ_TIMEOUT): the read blocked for the
\* port's timeout
ListenTimeout ==
    /\ pc = "listen"
    /\ now + DURATION_IO_TIMEOUT + READ_TIMEOUT <= MaxTime
    /\ now' = now + DURATION_IO_TIMEOUT + READ_TIMEOUT
    /\ ev' = Event("timeout", now + DURATION_IO_TIMEOUT)
    /\ UNCHANGED <<pc, prev_tone_detected, prev_time_detected, lastTone, lastInvoke,
                   lastEdge, triggers, cbFailed>>
    /\ UNCHANGED <<hsVars, pureVars>>

\* Err(e) => return Err(anyhow!(e))
ListenError ==
    /\ pc = "listen"
    /\ pc' = "listen_failed"
    /\ ev' = Event("error", now)
    /\ UNCHANGED <<now, prev_tone_detected, prev_time_detected, lastTone, lastInvoke,
                   lastEdge, triggers, cbFailed>>
    /\ UNCHANGED <<hsVars, pureVars>>

Next ==
    \/ SendCommand
    \/ PollTimeout
    \/ PollBytesToReadErr
    \/ PollIdle
    \/ PollRead
    \/ ModemDeliver
    \/ StartListen
    \/ ListenFrame
    \/ ListenZero
    \/ ListenTimeout
    \/ ListenError

Spec == Init /\ [][Next]_vars

(* ------------------------ the handshake on its own --------------------- *)

\* the handshake alone: main up to the return of send_commands.  The program takes
\* its next step whenever it has one (every link call returns and time advances);
\* whether the modem sends and whether bytes_to_read fails is left open
HandshakeNext ==
    \/ SendCommand
    \/ PollTimeout
    \/ PollBytesToReadErr
    \/ PollIdle
    \/ PollRead
    \/ ModemDeliver

SpecHandshake ==
    /\ Init
    /\ [][HandshakeNext]_vars
    /\ WF_vars(SendCommand)
    /\ WF_vars(PollTimeout)
    /\ WF_vars(PollIdle)
    /\ WF_vars(PollRead)

(* ----------------- the response printed by send_commands ---------------- *)

\* raw responses: every sequence of at most MaxRaw of these bytes, the modem's
\* replies, and a reply behind the echo of its command
RawBytes == {CR, LF, "O", "K", " ", "+"}
EchoedReply == <<"A", "T", "+", "V", "R", "X", CR>> \o ReplyCONNECT
RawResponses ==
    UNION {[1..n -> RawBytes] : n \in 0..MaxRaw}
        \cup {ReplyOK, ReplyERROR, ReplyCONNECT, EchoedReply}

InitNormalize ==
    /\ pc = "normalize"
    /\ Fresh
    /\ arg \in {Tag(raw, 1) : raw \in RawResponses}
    /\ result = <<>>

\* main.rs:56 applied to a buffer
Normalize ==
    /\ pc = "normalize"
    /\ result' = Response(arg)
    /\ pc' = "done"
    /\ UNCHANGED <<hsVars, listenVars, arg>>

SpecNormalize == InitNormalize /\ [][Normalize]_vars

(* --------------------------- high_pass_filter -------------------------- *)

PCM_SAMPLE_RATE == 8000
HIGH_PASS_CUTOFF == 3000
\* std::f32::consts::PI, as the fraction PiNum / PiDen
PiNum == 355
PiDen == 113
I16Min == -32768
I16Max == 32767

\* alpha = dt / (rc + dt) with rc = 1 / (cutoff * 2 * PI) and dt = 1 / PCM_SAMPLE_RATE,
\* which is 2 PI cutoff / (PCM_SAMPLE_RATE + 2 PI cutoff), as AlphaNum / AlphaDen
AlphaNum(cutoff) == 2 * PiNum * cutoff
AlphaDen(cutoff) == PiDen * PCM_SAMPLE_RATE + 2 * PiNum * cutoff

\* `as i16` of a float: the fraction is dropped and the value saturates
TruncDiv(a, b) == IF a >= 0 THEN a \div b ELSE -((-a) \div b)
AsI16(x) == IF x > I16Max THEN I16Max ELSE IF x < I16Min THEN I16Min ELSE x

\* let filtered = alpha * ((*sample as f32) - previous); *sample = filtered as i16
Filtered(sample, previous, cutoff) ==
    AsI16(TruncDiv(AlphaNum(cutoff) * (sample - previous), AlphaDen(cutoff)))

\* let mut previous = samples[0] as f32
FirstPrevious(samples) == samples[1]

\* previous = *sample as f32: the raw sample, taken before it is overwritten
NextPreviousFiltered(sample, filtered) == filtered
NextPrevious(sample, filtered) == sample

\* for sample in samples.iter_mut(), from the k-th sample on
RECURSIVE FilterFrom(_, _, _, _)
FilterFrom(samples, k, previous, cutoff) ==
    IF k > Len(samples) THEN <<>>
    ELSE LET filtered == Filtered(samples[k], previous, cutoff)
         IN  <<filtered>> \o
             FilterFrom(samples, k + 1, NextPrevious(samples[k], filtered), cutoff)

\* what high_pass_filter leaves in samples
high_pass_filter(samples, cutoff) ==
    FilterFrom(samples, 1, FirstPrevious(samples), cutoff)

\* frames of 1 to MaxFrame samples; the samples are the bytes the listening loop
\* promotes to i16 (audio.rs:80), 0..255
SampleValues == {0, 1, 2, 127, 128, 255}
Frames == UNION {[1..n -> SampleValues] : n \in 1..MaxFrame}

InitFilter ==
    /\ pc = "filter"
    /\ Fresh
    /\ arg \in Frames
    /\ result = <<>>

Filter ==
    /\ pc = "filter"
    /\ result' = high_pass_filter(arg, HIGH_PASS_CUTOFF)
    /\ pc' = "done"
    /\ UNCHANGED <<hsVars, listenVars, arg>>

SpecFilter == InitFilter /\ [][Filter]_vars

(* ------------------------------ detect_tone ---------------------------- *)

FFT_SAMPLE_SIZE == 1024
TONE_MIN_FREQ == 1640
TONE_MAX_FREQ == 1720
TONE_MIN_POWER == 100
TONE_MAX_POWER == 300

\* frequency = i as f32 * bin_width with bin_width = PCM_SAMPLE_RATE / num_samples;
\* frequency >= TONE_MIN_FREQ && frequency <= TONE_MAX_FREQ, both sides times
\* num_samples
InBand(i, num_samples) ==
    /\ i * PCM_SAMPLE_RATE >= TONE_MIN_FREQ * num_samples
    /\ i * PCM_SAMPLE_RATE <= TONE_MAX_FREQ * num_samples

\* let power = sample.re.powi(2) + sample.im.powi(2)
Power(sample) == sample.re * sample.re + sample.im * sample.im

\* power > TONE_MIN_POWER && power < TONE_MAX_POWER
PowerInWindowClosed(power) == power >= TONE_MIN_POWER /\ power <= TONE_MAX_POWER
PowerInWindow(power) == power > TONE_MIN_POWER /\ power < TONE_MAX_POWER

\* the body of the loop for bin i (fft_output[i + 1] here): the bin qualifies
Qualifies(fft_output, i) ==
    InBand(i, Len(fft_output)) /\ PowerInWindow(Power(fft_output[i + 1]))

\* for (i, &sample) in fft_output.iter().enumerate(), over the bins lo..hi in
\* ascending order, true at the first bin that qualifies; the range is scanned by
\* halves, lower half first, which keeps the order and bounds the nesting
RECURSIVE DetectIn(_, _, _)
DetectIn(fft_output, lo, hi) ==
    IF lo > hi THEN FALSE
    ELSE IF lo = hi THEN Qualifies(fft_output, lo)
    ELSE \/ DetectIn(fft_output, lo, (lo + hi) \div 2)
         \/ DetectIn(fft_output, (lo + hi) \div 2 + 1, hi)

detect_tone(fft_output) == DetectIn(fft_output, 0, Len(fft_output) - 1)

\* transform outputs: FFT_SAMPLE_SIZE bins (the listening loop's) or ShortFrame
\* bins, all zero but for two bins, placed at and around the edges of the band,
\* with powers 0, 100, 101, 200, 298, 305
ZeroBin == [re |-> 0, im |-> 0]
BinValues == {ZeroBin, [re |-> 10, im |-> 0], [re |-> 10, im |-> 1],
              [re |-> -10, im |-> -10], [re |-> 17, im |-> 3], [re |-> 17, im |-> 4]}
FrameLengths == {FFT_SAMPLE_SIZE, ShortFrame}
FirstInBand(n) == CHOOSE i \in 0..(n - 1) :
                     InBand(i, n) /\ \A j \in 0..(i - 1) : ~InBand(j, n)
LastInBand(n) == CHOOSE i \in 0..(n - 1) :
                    InBand(i, n) /\ \A j \in (i + 1)..(n - 1) : ~InBand(j, n)
ProbeBins(n) == {0, FirstInBand(n) - 1, FirstInBand(n), LastInBand(n),
                 LastInBand(n) + 1, n - 1}
Spectrum(n, p1, v1, p2, v2) ==
    [k \in 1..n |-> IF k = p2 + 1 THEN v2 ELSE IF k = p1 + 1 THEN v1 ELSE ZeroBin]

InitDetect ==
    /\ pc = "detect"
    /\ Fresh
    /\ \E n \in FrameLengths :
          \E p1 \in ProbeBins(n), p2 \in ProbeBins(n), v1 \in BinValues, v2 \in BinValues :
             arg = Spectrum(n, p1, v1, p2, v2)
    /\ result = FALSE

Detect ==
    /\ pc = "detect"
    /\ result' = detect_tone(arg)
    /\ pc' = "done"
    /\ UNCHANGED <<hsVars, listenVars, arg>>

SpecDetect == InitDetect /\ [][Detect]_vars

(* ------------------------------- claims ------------------------------- *)

\* a step of the listening loop that processes a frame (a read of n > 0 bytes)
FrameStep == pc = "listen" /\ ev'.read = "frame"
\* a frame step on a rising edge: the frame is classified true and the frame
\* processed before it, if any, was classified false
EdgeStep == FrameStep /\ ev'.tone /\ lastTone # "true"
\* a step that invokes the trigger callback
InvokeStep == triggers' # triggers

\* the order of the AT commands the handshake is specified to send
SpecifiedOrder == <<"ATZ", "ATE0", "AT+FCLASS=8", "AT+VLS=1", "AT+VGR=3",
                    "AT+VSM=1,8000", "AT", "AT+VRX">>

\* C1: the trigger callback is invoked only while processing a frame classified
\* true whose preceding processed frame was classified false (or that is the first
\* frame), and two invocations are at least DETECTION_INTERVAL apart.
C1_TriggerOnlyOnEdgeAndSpaced ==
    [][InvokeStep =>
          /\ FrameStep
          /\ ev'.tone
          /\ lastTone # "true"
          /\ triggers' = triggers + 1
          /\ (lastInvoke >= 0 => ev'.at - lastInvoke >= DETECTION_INTERVAL)]_vars

\* two invocations have happened, the second on a rising edge
C1_Witness == triggers = 2 /\ ev.fired /\ ev.tone /\ lastInvoke = ev.at

\* C2: while no trigger has fired yet, the first rising edge invokes the callback
\* at once, however soon after the start of listening it is processed.
C2_FirstEdgeFires ==
    [][EdgeStep /\ triggers = 0 => ev'.fired /\ triggers' = 1]_vars

C4_StopsAtFailedCommand ==
    firstBad # 0 => pc = "hs_failed" /\ Len(written) = firstBad

\* C5: an audio read or a trigger happens only after every handshake command,
\* AT+VRX included, got its expected reply.
C5_ListensOnlyWhenConfirmed ==
    (pc \in {"listen", "listen_failed"} \/ ev.read # "none" \/ triggers > 0)
        => firstBad = 0

\* C6: while every command gets its expected reply, each command is written once,
\* in list order, followed by one carriage return, command k+1 is not written before
\* the polling for command k has ended, and after the last command the handshake
\* returns success.
C6_WritesEachCommandOnceInOrder ==
    firstBad = 0 =>
        /\ Len(written) <= Len(commands)
        /\ \A k \in 1..Len(written) : written[k] = <<commands[k], CR>>
        /\ (pc = "send" => Len(written) = polled)
        /\ (pc = "poll" => Len(written) = polled + 1)
        /\ (polled = Len(commands) =>
               /\ pc \in {"returned", "listen", "listen_failed"}
               /\ hsErr = "none"
               /\ Len(written) = Len(commands))

\* the handshake has returned success with every reply as expected
C6_Witness == pc = "returned" /\ firstBad = 0 /\ Len(written) = Len(commands)

\* C7: the commands are written in the order ATZ, ATE0, AT+FCLASS=8, AT+VLS=1,
\* AT+VGR=3, AT+VSM=1,8000, AT, AT+VRX.
C7_CommandOrder ==
    \A k \in 1..Len(written) : written[k][1] = SpecifiedOrder[k]

\* C8: a timeout of the link never makes the handshake return an error and never
\* ends the listening loop.
C8_TimeoutNeverSurfaces ==
    /\ hsErr # "write_timed_out"
    /\ (ev.read = "timeout" => pc = "listen")

\* C9: the listening loop returns exactly when a read fails with an error other
\* than a timeout, and then at once, without processing a frame or invoking the
\* callback; after a frame, a zero-byte read, a timed-out read or a callback
\* invocation it goes on to another read.
C9_ReturnsOnlyOnHardError ==
    [][pc = "listen" =>
          /\ pc' \in {"listen", "listen_failed"}
          /\ (pc' = "listen_failed" <=> ev'.read = "error")
          /\ (ev'.read = "error" =>
                 UNCHANGED <<triggers, prev_tone_detected, prev_time_detected,
                             lastTone, lastInvoke, now>>)
          /\ (ev'.read \in {"frame", "zero", "timeout"} \/ InvokeStep => pc' = "listen")]_vars

\* the loop has returned on a hard error after it had invoked the callback
C9_Witness == pc = "listen_failed" /\ ev.read = "error" /\ triggers >= 1

\* C10: whether the callback delivers its notification or fails, the loop records
\* the trigger time, goes on to the next read, and fires again on a later rising
\* edge once the interval has elapsed.
C10_DeliveryFailureHarmless ==
    [][/\ InvokeStep =>
             /\ ev'.cb \in CallbackResults
             /\ pc' = "listen"
             /\ prev_time_detected' = now'
             /\ prev_tone_detected'
       /\ cbFailed /\ EdgeStep /\ ev'.at - prev_time_detected >= DETECTION_INTERVAL
             => ev'.fired]_vars

\* a trigger has fired after an earlier callback failed to deliver
C10_Witness == cbFailed /\ triggers = 2 /\ ev.fired /\ ev.cb = "delivered"

\* a step of the listening loop whose read timed out or returned no byte
IdleStep == pc = "listen" /\ ev'.read \in {"zero", "timeout"}
\* a step that ends the polling loop of a handshake command
EndPollStep == pc = "poll" /\ polled' = polled + 1

\* C14: after every processed frame prev_tone_detected equals the classification
\* of that frame, whether a trigger fired, was suppressed, or there was no edge.
C14_PrevToneIsLastFrame ==
    [][FrameStep => prev_tone_detected' = ev'.tone]_vars

\* a rising edge was suppressed by the cooldown and the flag is set all the same
C14_Witness ==
    /\ ev.read = "frame" /\ ev.tone /\ ~ev.fired
    /\ lastEdge.at = ev.at /\ ~lastEdge.fired
    /\ prev_tone_detected

\* C15: an iteration whose read times out or returns no byte leaves
\* prev_tone_detected and prev_time_detected as they were and invokes no callback,
\* so the next frame of a tone that was present before it is no rising edge.
C15_IdleLeavesDetectionState ==
    [][/\ IdleStep => /\ UNCHANGED <<prev_tone_detected, prev_time_detected, triggers>>
                      /\ pc' = "listen"
       /\ FrameStep /\ lastTone = "true" /\ ev.read \in {"zero", "timeout"}
             => ~ev'.fired /\ triggers' = triggers]_vars

\* an idle iteration during a tone, with the interval long elapsed
C15_Witness ==
    /\ ev.read \in {"zero", "timeout"}
    /\ pc = "listen"
    /\ lastTone = "true" /\ prev_tone_detected
    /\ now - prev_time_detected >= DETECTION_INTERVAL

\* C16: the polling loop of a command ends at the first read that returns bytes,
\* with exactly the bytes of that read as the response, the bytes the modem has
\* still to send left unread; a read of no byte or a timed-out read goes on
\* polling, and the loop ends with an empty response only after the 2 s timeout.
C16_PollingEndsAtFirstData ==
    [][/\ EndPollStep /\ buffer' # <<>> =>
             /\ buffer' = rx
             /\ rx' = <<>>
             /\ pending' = pending
             /\ ~TimedOut
       /\ EndPollStep /\ buffer' = <<>> => TimedOut /\ rx' = rx
       /\ pc = "poll" /\ elapsed' > elapsed =>
             /\ pc' = "poll"
             /\ UNCHANGED <<buffer, rx, pending, polled, idx>>]_vars

\* a command has ended with the first part of its reply, the rest is yet to arrive
C16_Witness ==
    /\ pc = "send"
    /\ buffer # <<>>
    /\ buffer[Len(buffer)].of = idx - 1
    /\ pending # <<>>
    /\ pending[1].of = idx - 1

\* C18: a block of tone frames whose rising edge was suppressed by the cooldown
\* fires no trigger, also in its frames processed after the cooldown has ended.
C18_SuppressedBlockNeverFires ==
    [][FrameStep /\ lastTone = "true" /\ ~lastEdge.fired
          => ~ev'.fired /\ triggers' = triggers /\ prev_time_detected' = prev_time_detected]_vars

\* a frame of a suppressed block, processed once the cooldown is over
C18_Witness ==
    /\ ev.read = "frame" /\ ev.tone /\ ~ev.fired
    /\ ~lastEdge.fired
    /\ lastEdge.at >= 0
    /\ lastEdge.at - prev_time_detected < DETECTION_INTERVAL
    /\ ev.at > lastEdge.at
    /\ ev.at - prev_time_detected >= DETECTION_INTERVAL

\* C19: prev_time_detected changes only in a step that invokes the callback.
C19_TriggerTimeOnlyOnInvoke ==
    [][prev_time_detected' # prev_time_detected => InvokeStep /\ FrameStep]_vars

\* a rising edge has been suppressed after a trigger, the trigger time kept
C19_Witness ==
    /\ ev.read = "frame" /\ ev.tone /\ ~ev.fired
    /\ lastEdge.at = ev.at
    /\ triggers >= 1
    /\ prev_time_detected < ev.at
    /\ prev_time_detected > 0

\* C20: the response of a command holds only bytes the modem sent in reply to
\* that command.
C20_ResponseIsOwnReply ==
    pc \in {"send", "returned"} =>
        \A j \in 1..Len(buffer) : buffer[j].of = idx - 1

\* the alphanumeric bytes among those of the raw responses
IsAlphanumeric(c) == c \in {"A", "C", "E", "K", "N", "O", "R", "T", "V", "X"}
RECURSIVE KeepAlphanumeric(_)
KeepAlphanumeric(s) ==
    IF s = <<>> THEN <<>>
    ELSE IF IsAlphanumeric(Head(s)) THEN <<Head(s)>> \o KeepAlphanumeric(Tail(s))
    ELSE KeepAlphanumeric(Tail(s))

\* C11: the normalized response is the raw response without its non-alphanumeric
\* bytes (control characters, spaces, punctuation), the others kept in order.
C11_KeepsOnlyAlphanumerics ==
    pc = "done" => result = KeepAlphanumeric(Bytes(arg))

\* the power and the center frequency of bin i of a transform output, as claimed
BinPower(fft_output, i) ==
    fft_output[i + 1].re * fft_output[i + 1].re + fft_output[i + 1].im * fft_output[i + 1].im
BinInBand(fft_output, i) ==
    /\ TONE_MIN_FREQ * Len(fft_output) <= i * PCM_SAMPLE_RATE
    /\ i * PCM_SAMPLE_RATE <= TONE_MAX_FREQ * Len(fft_output)

\* C12: detect_tone returns true exactly when some bin whose center frequency
\* i * 8000 / N lies in [1640, 1720] has a power above 100 and below 300; so a
\* bin of power 100, a bin of power above 300, a bin off the band and an all-zero
\* output do not make it true.
C12_DetectIffBinInBandAndWindow ==
    pc = "done" =>
        /\ result <=> \E i \in 0..(Len(arg) - 1) :
                         /\ BinInBand(arg, i)
                         /\ BinPower(arg, i) > 100
                         /\ BinPower(arg, i) < 300
        /\ (\A i \in 0..(Len(arg) - 1) : BinPower(arg, i) \in {0, 100, 305})
               => ~result
        /\ (\A i \in 0..(Len(arg) - 1) : BinInBand(arg, i) => BinPower(arg, i) = 0)
               => ~result

\* true for a bin at exactly 1640 Hz (bin 41 of 200) of power 101, beside a bin
\* of power 100 below the band
C12_Witness ==
    /\ pc = "done"
    /\ result
    /\ Len(arg) = 200
    /\ arg[42] = [re |-> 10, im |-> 1]
    /\ arg[41] = [re |-> 10, im |-> 0]

\* C13: the first output sample of high_pass_filter is 0, every output sample of
\* a frame of equal samples is 0, and each later output is alpha times the
\* difference of its raw sample and the raw sample before it.
C13_FilterRejectsDC ==
    pc = "done" =>
        /\ Len(result) = Len(arg)
        /\ result[1] = 0
        /\ (\A k \in 1..Len(arg) : arg[k] = arg[1])
               => \A k \in 1..Len(arg) : result[k] = 0
        /\ \A k \in 2..Len(arg) :
               result[k] = Filtered(arg[k], arg[k - 1], HIGH_PASS_CUTOFF)

\* a frame of three samples 255 has been filtered to zeros
C13_Witness ==
    /\ pc = "done"
    /\ arg = <<255, 255, 255>>
    /\ result = <<0, 0, 0>>

\* C17: the handshake terminates: send_commands returns, and until then the
\* polling loop of a command is left at the first iteration that finds more than
\* 2 s elapsed, so the elapsed time stays within the timeout and one iteration.
C17_HandshakeTerminates ==
    /\ <>(pc \in {"returned", "hs_failed"})
    /\ [](pc = "poll" =>
             elapsed <= DURATION_IO_TIMEOUT + DURATION_IO_TIMEOUT + DURATION_CMD_READ_TIMEOUT)

\* a polling loop has ended on the timeout, with an empty response, while the port
\* held bytes that no read returned
C17_Witness ==
    /\ pc \in {"send", "returned"}
    /\ buffer = <<>>
    /\ rx # <<>>
    /\ polled >= 1
====
